---------------------------- MODULE Spec2Model ----------------------------
(***************************************************************************)
(* Model of the Deep Research Assistant (app.py, agent_engine.py,          *)
(* session_manager.py, file_utils.py).                                     *)
(*                                                                         *)
(* Text is a sequence of one-character strings, so that the string         *)
(* operations of the code (strip, split, regular-expression search,        *)
(* sorting, str of a list) are computed character by character.            *)
(***************************************************************************)
EXTENDS Integers, Sequences, FiniteSets, TLC

(***************************************************************************)
(* Bounds of the model.                                                    *)
(***************************************************************************)
MaxPieces == 3       \* pieces of a short answer text
MaxWords == 8        \* words of a long answer text
MaxPlanLen == 4      \* characters of a model response to the plan prompt
MaxPrompts == 2      \* prompts submitted to the app
MaxIter == 1         \* tool invocations of one agent.run
MaxCalls == 3        \* direct calls of _get_agent
MaxDocs == 2         \* documents of a searched dict
MaxRuns == 2         \* script runs of the process

(***************************************************************************)
(* Python str primitives.                                                  *)
(***************************************************************************)
\* ord(c) for the characters the model uses
Ord(c) ==
    CASE c = "\n" -> 10
      [] c = " "  -> 32
      [] c = "'"  -> 39
      [] c = ","  -> 44
      [] c = "-"  -> 45
      [] c = "."  -> 46
      [] c = "/"  -> 47
      [] c = "1"  -> 49
      [] c = "2"  -> 50
      [] c = ":"  -> 58
      [] c = "<"  -> 60
      [] c = ">"  -> 62
      [] c = "C"  -> 67
      [] c = "S"  -> 83
      [] c = "V"  -> 86
      [] c = "X"  -> 88
      [] c = "["  -> 91
      [] c = "]"  -> 93
      [] c = "_"  -> 95
      [] c = "a"  -> 97
      [] c = "b"  -> 98
      [] c = "c"  -> 99
      [] c = "d"  -> 100
      [] c = "e"  -> 101
      [] c = "f"  -> 102
      [] c = "h"  -> 104
      [] c = "i"  -> 105
      [] c = "l"  -> 108
      [] c = "m"  -> 109
      [] c = "n"  -> 110
      [] c = "o"  -> 111
      [] c = "p"  -> 112
      [] c = "q"  -> 113
      [] c = "r"  -> 114
      [] c = "s"  -> 115
      [] c = "t"  -> 116
      [] c = "u"  -> 117
      [] c = "v"  -> 118
      [] c = "x"  -> 120
      [] c = "y"  -> 121

\* str.isspace for one character
IsSpace(c) == c \in {" ", "\n"}

\* s[i:j] with 1-based inclusive bounds; empty when i > j
Slice(s, i, j) == [k \in 1..(j - i + 1) |-> s[i + k - 1]]

\* s.startswith(p, i): p occurs in s at position i
StartsWithAt(s, i, p) ==
    /\ i + Len(p) - 1 <= Len(s)
    /\ \A k \in 1..Len(p) : s[i + k - 1] = p[k]

\* a < b for Python strings: code-point order, a proper prefix is smaller
RECURSIVE StrLess(_, _)
StrLess(a, b) ==
    IF a = <<>> THEN b # <<>>
    ELSE IF b = <<>> THEN FALSE
    ELSE IF Ord(Head(a)) # Ord(Head(b)) THEN Ord(Head(a)) < Ord(Head(b))
    ELSE StrLess(Tail(a), Tail(b))

\* sorted(S) for a set S of strings
RECURSIVE SortedSeq(_)
SortedSeq(S) ==
    IF S = {} THEN <<>>
    ELSE LET m == CHOOSE x \in S : \A y \in S \ {x} : StrLess(x, y)
         IN  <<m>> \o SortedSeq(S \ {m})

\* set(xs)
SeqToSet(xs) == {xs[i] : i \in 1..Len(xs)}

\* sep.join(xs)
RECURSIVE Join(_, _)
Join(sep, xs) ==
    IF xs = <<>> THEN <<>>
    ELSE IF Len(xs) = 1 THEN xs[1]
    ELSE xs[1] \o sep \o Join(sep, Tail(xs))

(***************************************************************************)
(* Citation extraction, agent_engine.py lines 144-149.                     *)
(***************************************************************************)
HTTP == <<"h", "t", "t", "p">>
COLON_SLASHES == <<":", "/", "/">>
CITATION_CAP == 5

\* end of the maximal run of non-whitespace that starts at i (i - 1 if none)
RECURSIVE NonSpaceEnd(_, _)
NonSpaceEnd(s, i) ==
    IF i > Len(s) \/ IsSpace(s[i]) THEN i - 1 ELSE NonSpaceEnd(s, i + 1)

\* position just after the scheme "http://" or "https://" at i, 0 if none
UrlBodyStart(s, i) ==
    IF ~StartsWithAt(s, i, HTTP) THEN 0
    ELSE LET j == IF StartsWithAt(s, i + 4, <<"s">> \o COLON_SLASHES)
                  THEN i + 5 ELSE i + 4
         IN  IF StartsWithAt(s, j, COLON_SLASHES) THEN j + 3 ELSE 0

\* re.match(r"https?://\S+", s, pos=i): the end of the match at i, 0 if none
UrlMatchEnd(s, i) ==
    LET b == UrlBodyStart(s, i)
    IN  IF b = 0 THEN 0
        ELSE LET e == NonSpaceEnd(s, b)
             IN  IF e < b THEN 0 ELSE e

\* a slip: the pattern written with a group, r"https?://(\S+)", for which
\* findall returns the group and not the whole match
RECURSIVE FindAllUrlsGroup(_, _)
FindAllUrlsGroup(s, i) ==
    IF i > Len(s) THEN <<>>
    ELSE LET e == UrlMatchEnd(s, i)
         IN  IF e = 0 THEN FindAllUrlsGroup(s, i + 1)
             ELSE <<Slice(s, UrlBodyStart(s, i), e)>> \o FindAllUrlsGroup(s, e + 1)

\* re.findall(r"https?://\S+", s) scanning from position i:
\* leftmost, non-overlapping, greedy matches
RECURSIVE FindAllUrls(_, _)
FindAllUrls(s, i) ==
    IF i > Len(s) THEN <<>>
    ELSE LET e == UrlMatchEnd(s, i)
         IN  IF e = 0 THEN FindAllUrls(s, i + 1)
             ELSE <<Slice(s, i, e)>> \o FindAllUrls(s, e + 1)

\* a slip: the cap applied to the matches before deduplication and sorting
ExtractCitationsCapFirst(answer) ==
    LET urls == FindAllUrls(answer, 1)
    IN  SortedSeq(SeqToSet(SubSeq(urls, 1, IF Len(urls) < CITATION_CAP
                                            THEN Len(urls) ELSE CITATION_CAP)))

\* sorted(set(urls))[:5]
ExtractCitations(answer) ==
    LET urls == FindAllUrls(answer, 1)
        unique == SortedSeq(SeqToSet(urls))
    IN  SubSeq(unique, 1, IF Len(unique) < CITATION_CAP
                          THEN Len(unique) ELSE CITATION_CAP)

(***************************************************************************)
(* Plan generation, agent_engine.py lines 80-91.                           *)
(***************************************************************************)
\* s.lstrip(chars)
RECURSIVE LStrip(_, _)
LStrip(s, chars) ==
    IF s # <<>> /\ Head(s) \in chars THEN LStrip(Tail(s), chars) ELSE s

\* s.rstrip(chars)
RECURSIVE RStrip(_, _)
RStrip(s, chars) ==
    IF s # <<>> /\ s[Len(s)] \in chars
    THEN RStrip(SubSeq(s, 1, Len(s) - 1), chars) ELSE s

\* s.strip(chars)
Strip(s, chars) == RStrip(LStrip(s, chars), chars)

WHITESPACE == {" ", "\n"}
DASH_SPACE == {"-", " "}

\* s.split(sep) for a one-character sep: always at least one field
RECURSIVE Split(_, _)
Split(s, sep) ==
    IF \A i \in 1..Len(s) : s[i] # sep THEN <<s>>
    ELSE LET i == CHOOSE k \in 1..Len(s) :
                      s[k] = sep /\ \A m \in 1..(k - 1) : s[m] # sep
         IN  <<SubSeq(s, 1, i - 1)>> \o Split(SubSeq(s, i + 1, Len(s)), sep)

\* [s.strip("- ") for s in lines if s.strip()]
RECURSIVE PlanSteps(_)
PlanSteps(lines) ==
    IF lines = <<>> THEN <<>>
    ELSE IF Strip(Head(lines), WHITESPACE) # <<>>
         THEN <<Strip(Head(lines), DASH_SPACE)>> \o PlanSteps(Tail(lines))
         ELSE PlanSteps(Tail(lines))

\* the body of generate_plan after the model call: resp is the outcome of
\* llm(...), either a response with its content or an exception
generate_plan(resp) ==
    IF ~resp.ok THEN [raised |-> TRUE, steps |-> <<>>]
    ELSE [raised |-> FALSE,
          steps |-> PlanSteps(Split(Strip(resp.content, WHITESPACE), "\n"))]

(***************************************************************************)
(* Documents.  A dict is a sequence of [name, content] entries with        *)
(* distinct names, in insertion order.  A content is a str                 *)
(* ([type |-> "str", data |-> text]) or a DataFrame                        *)
(* ([type |-> "df", data |-> its to_csv(index=False) text]).               *)
(***************************************************************************)
\* list(d.keys())
Keys(d) == [i \in 1..Len(d) |-> d[i].name]

\* d[k] = v
DictSet(d, k, v) ==
    IF \E i \in 1..Len(d) : d[i].name = k
    THEN [i \in 1..Len(d) |-> IF d[i].name = k THEN [name |-> k, content |-> v]
                                                ELSE d[i]]
    ELSE Append(d, [name |-> k, content |-> v])

\* d.update(new)
RECURSIVE DictUpdate(_, _)
DictUpdate(d, new) ==
    IF new = <<>> THEN d
    ELSE DictUpdate(DictSet(d, Head(new).name, Head(new).content), Tail(new))

\* str.lower for one character
Lower(c) ==
    CASE c = "C" -> "c"
      [] c = "S" -> "s"
      [] c = "V" -> "v"
      [] c = "X" -> "x"
      [] OTHER -> c

\* s.lower()
LowerStr(s) == [i \in 1..Len(s) |-> Lower(s[i])]

\* s.endswith(suffix)
EndsWith(s, suffix) ==
    Len(suffix) <= Len(s) /\ StartsWithAt(s, Len(s) - Len(suffix) + 1, suffix)

DOT_CSV == <<".", "c", "s", "v">>

\* load_files, file_utils.py lines 15-33: an uploaded file is
\* [name |-> text, data |-> text]; .pdf and .docx are read as text like .txt
RECURSIVE load_files(_)
load_files(uploaded) ==
    IF uploaded = <<>> THEN <<>>
    ELSE LET f == uploaded[Len(uploaded)]
             rest == load_files(SubSeq(uploaded, 1, Len(uploaded) - 1))
         IN  IF EndsWith(LowerStr(f.name), DOT_CSV)
             THEN DictSet(rest, f.name, [type |-> "df", data |-> f.data])
             ELSE DictSet(rest, f.name, [type |-> "str", data |-> f.data])

(***************************************************************************)
(* Document search, agent_engine.py lines 51-69.                           *)
(***************************************************************************)
SNIPPET_BEFORE == 120
SNIPPET_AFTER == 400
NO_MATCH == <<"N", "o", " ", "m", "a", "t", "c", "h", " ", "i", "n", " ", "u", "p", "l", "o", "a", "d", "e", "d", " ", "d", "o", "c", "u", "m", "e", "n", "t", "s", ".">>
FROM == <<"F", "r", "o", "m", " ">>
\* the character U+2026 is written "U+2026"
COLON_ELLIPSIS == <<":", " ", "U+2026">>
ELLIPSIS == <<"U+2026">>
QUERY_FOUND == <<"Q", "u", "e", "r", "y", " ", "f", "o", "u", "n", "d", " ", "i", "n", " ", "D", "a", "t", "a", "F", "r", "a", "m", "e", " ">>
BREVITY_NOTE == <<" ", "(", "o", "m", "i", "t", "t", "e", "d", " ", "f", "o", "r", " ", "b", "r", "e", "v", "i", "t", "y", ")">>

\* s.find(q) + 1: the first position of q in s, 0 if q does not occur
Find(s, q) ==
    IF \E i \in 1..(Len(s) + 1) : StartsWithAt(s, i, q)
    THEN CHOOSE i \in 1..(Len(s) + 1) :
             StartsWithAt(s, i, q) /\ \A k \in 1..(i - 1) : ~StartsWithAt(s, k, q)
    ELSE 0

\* the snippets list of _search_documents over the entries of files
RECURSIVE Snippets(_, _)
Snippets(files, query_lower) ==
    IF files = <<>> THEN <<>>
    ELSE LET name == Head(files).name
             content == Head(files).content
             idx == Find(LowerStr(content.data), query_lower)
             lo == IF idx - SNIPPET_BEFORE > 1 THEN idx - SNIPPET_BEFORE ELSE 1
             hi == IF idx - 1 + SNIPPET_AFTER < Len(content.data)
                   THEN idx - 1 + SNIPPET_AFTER ELSE Len(content.data)
             here == IF idx = 0 THEN <<>>
                     ELSE IF content.type = "str"
                     THEN <<FROM \o name \o COLON_ELLIPSIS
                              \o SubSeq(content.data, lo, hi) \o ELLIPSIS>>
                     ELSE <<QUERY_FOUND \o name \o BREVITY_NOTE>>
         IN  here \o Snippets(Tail(files), query_lower)

\* a slip: the query is compared as given, not lower-cased
search_documents_raw_query(files, query) ==
    LET snippets == Snippets(files, query)
    IN  IF snippets # <<>> THEN Join(<<"\n">>, snippets) ELSE NO_MATCH

\* _search_documents(query) of build_document_search(files)
search_documents(files, query) ==
    LET snippets == Snippets(files, LowerStr(query))
    IN  IF snippets # <<>> THEN Join(<<"\n">>, snippets) ELSE NO_MATCH

(***************************************************************************)
(* Brave search, agent_engine.py lines 27-45.                              *)
(***************************************************************************)
HTTP_OK == 200
BRAVE_FAILED == <<"(", "B", "r", "a", "v", "e", " ", "s", "e", "a", "r", "c", "h", " ", "f", "a", "i", "l", "e", "d", ":", " ">>

Digit(n) ==
    CASE n = 0 -> "0" [] n = 1 -> "1" [] n = 2 -> "2" [] n = 3 -> "3"
      [] n = 4 -> "4" [] n = 5 -> "5" [] n = 6 -> "6" [] n = 7 -> "7"
      [] n = 8 -> "8" [] n = 9 -> "9"

\* str(n) for n >= 0
RECURSIVE IntToStr(_)
IntToStr(n) ==
    IF n < 10 THEN <<Digit(n)>> ELSE IntToStr(n \div 10) \o <<Digit(n % 10)>>

\* f"{title}\n{desc}\n{url}\n" for every result
ResultLines(results) ==
    [i \in 1..Len(results) |->
        results[i].title \o <<"\n">> \o results[i].description \o <<"\n">>
            \o results[i].url \o <<"\n">>]

\* brave_search(query, count) given what requests.get does: http.kind is
\* "response" (with status, and results when the body is JSON), or a
\* transport failure "timeout" / "connection_error", which requests.get
\* raises and brave_search does not catch; r.json() raises on a body that
\* is not JSON
brave_search(http) ==
    IF http.kind # "response" THEN [raised |-> TRUE, text |-> <<>>]
    ELSE IF http.status # HTTP_OK
         THEN [raised |-> FALSE,
               text |-> BRAVE_FAILED \o IntToStr(http.status) \o <<")">>]
    ELSE IF ~http.json THEN [raised |-> TRUE, text |-> <<>>]
    ELSE [raised |-> FALSE, text |-> Join(<<"\n">>, ResultLines(http.results))]

(***************************************************************************)
(* Session persistence, session_manager.py.  The directory saved_sessions  *)
(* is a function from session names to [exists, chat_history, files]; the  *)
(* saved files are JSON strings, [name, text] in dict order.               *)
(***************************************************************************)
DATAFRAME_PLACEHOLDER == <<"<", "d", "a", "t", "a", "f", "r", "a", "m", "e", ">">>

\* a slip: only the documents that are str are written
RECURSIVE SavedFilesTextOnly(_)
SavedFilesTextOnly(files) ==
    IF files = <<>> THEN <<>>
    ELSE (IF Head(files).content.type = "str"
          THEN <<[name |-> Head(files).name, text |-> Head(files).content.data]>>
          ELSE <<>>) \o SavedFilesTextOnly(Tail(files))

\* {k: (v if isinstance(v, str) else "<dataframe>") for k, v in files.items()}
SavedFiles(files) ==
    [i \in 1..Len(files) |->
        [name |-> files[i].name,
         text |-> IF files[i].content.type = "str" THEN files[i].content.data
                  ELSE DATAFRAME_PLACEHOLDER]]

\* save_session(name, chat_history, files): the directory after the write
save_session(dir, name, history, files) ==
    [dir EXCEPT ![name] = [exists |-> TRUE, chat_history |-> history,
                           files |-> SavedFiles(files)]]

\* load_session(name): (chat_history, files); every loaded content is a str
load_session(dir, name) ==
    IF ~dir[name].exists THEN [chat_history |-> <<>>, files |-> <<>>]
    ELSE [chat_history |-> dir[name].chat_history,
          files |-> [i \in 1..Len(dir[name].files) |->
                        [name |-> dir[name].files[i].name,
                         content |-> [type |-> "str",
                                      data |-> dir[name].files[i].text]]]]

(***************************************************************************)
(* Agent cache, agent_engine.py lines 96-126.                              *)
(***************************************************************************)
\* repr(s) of a str without quotes or backslashes
Repr(s) == <<"'">> \o s \o <<"'">>

\* str(xs) of a list of str
ListStr(xs) ==
    <<"[">> \o Join(<<",", " ">>, [i \in 1..Len(xs) |-> Repr(xs[i])]) \o <<"]">>

\* a slip: the key built from the names in insertion order
cache_key_unsorted(files) == ListStr(Keys(files))

\* cache_key = str(sorted(files.keys()))
cache_key(files) == ListStr(SortedSeq(SeqToSet(Keys(files))))

(***************************************************************************)
(* State.                                                                  *)
(***************************************************************************)
VARIABLES
    \* st.session_state and the widgets of one browser session (app.py)
    chat_history,      \* list of [role, content]
    files,             \* the dict st.session_state.files
    current_session,   \* name of the loaded or saved session, or None
    uploaded_files,    \* what the file_uploader widget holds
    \* process-wide state
    saved_sessions,    \* the directory saved_sessions
    agent_cache,       \* _agent_cache: cache key -> agent instance
    agents,            \* the agent instances: [memory, docs, shared]
    \* the script run that handles a prompt
    pc,                \* "idle", "plan", "run_agent", "reasoning", "store"
    prompt,
    plan_steps,
    agent,             \* the instance run_agent got from _get_agent, 0 if none
    iter,              \* tool invocations of the running agent.run
    scratch,           \* intermediate steps of the running agent.run
    answer,
    sources,
    error,             \* where the last script run raised, "none" if it did not
    \* history
    mem_mark,          \* length of the agent's memory when run_agent got it
    nprompts,          \* prompts submitted so far
    last_served,       \* the last prompt answered in this chat session
    calls,             \* direct calls of _get_agent: [keys, agent]
    \* citation extraction and plan generation on their own
    cite_pc, cite_answer, cite_urls, cite_again,
    plan_pc, plan_resp, plan_result,
    \* the document search on its own
    doc_pc, doc_files, doc_query, doc_result,
    \* start-up of the script, app.py lines 13-29
    boot_pc,           \* "idle", "imported", "serving"
    secrets,           \* st.secrets: key -> value, None if the key is not set
    environ,           \* os.environ: key -> value, None if the key is not set
    engine,            \* module state of agent_engine once imported
    resolved,          \* OPENAI_API_KEY and BRAVE_API_KEY of app.py
    boot_error,        \* how the last script run stopped early, "none" if not
    invoked,           \* the functions the current script run has called
    token_sent,        \* X-Subscription-Token of the last web search
    boot_runs,         \* script runs started
    \* two callers inside _get_agent
    race_pc, race_files, race_built,
    \* save_session and load_session on their own
    per_dir, per_last, per_loaded

appVars == <<chat_history, files, current_session, uploaded_files, saved_sessions>>
cacheVars == <<agent_cache, agents>>
frameVars == <<pc, prompt, plan_steps, agent, iter, scratch, answer, sources,
               error, mem_mark>>
histVars == <<nprompts, last_served, calls>>
citeVars == <<cite_pc, cite_answer, cite_urls, cite_again>>
planVars == <<plan_pc, plan_resp, plan_result>>
docVars == <<doc_pc, doc_files, doc_query, doc_result>>
bootVars == <<boot_pc, secrets, environ, engine, resolved, boot_error, invoked,
              token_sent, boot_runs>>
raceVars == <<race_pc, race_files, race_built>>
perVars == <<per_dir, per_last, per_loaded>>
unitVars == <<docVars, bootVars, raceVars, perVars>>
vars == <<appVars, cacheVars, frameVars, histVars, citeVars, planVars, unitVars>>

(***************************************************************************)
(* Values the model draws its inputs from.                                 *)
(***************************************************************************)
None == "None"
NEW_SESSION == "(New Session)"
AUTOSAVE == "autosave_latest"
\* datetime.now().strftime("session_%Y%m%d_%H%M%S"), app.py line 68
TIMESTAMP_NAME == "session_ts"
SessionNames == {AUTOSAVE, TIMESTAMP_NAME}

NAME_A == <<"a", ".", "t", "x", "t">>
NAME_B == <<"b", ".", "C", "S", "V">>
FILE_A_X == [name |-> NAME_A, data |-> <<"x">>]
FILE_A_Y == [name |-> NAME_A, data |-> <<"y">>]
UploadLists == {<<>>, <<FILE_A_X>>, <<FILE_A_Y>>}

\* the k-th prompt of a run of the model is the text "qk"
NthQuestion(k) == <<"q">> \o IntToStr(k)
Answers == {<<"s", "e", "e", " ", "h", "t", "t", "p", ":", "/", "/", "a">>}
DocQueries == {<<"X">>, <<"b">>}

LlmFailure == [ok |-> FALSE, content |-> <<>>]
\* what the model call of generate_plan does: it fails, or answers one of
\* two plans
PlanResponses ==
    {LlmFailure,
     [ok |-> TRUE, content |-> <<"-", " ", "a", "\n", "-", " ", "b">>],
     [ok |-> TRUE, content |-> <<"1", ".", " ", "q">>]}

HttpOutcomes ==
    { [kind |-> "response", status |-> 200, json |-> TRUE,
       results |-> <<[title |-> <<"a">>, description |-> <<"b">>,
                      url |-> <<"h", "t", "t", "p", ":", "/", "/", "a">>]>>],
      [kind |-> "response", status |-> 500, json |-> FALSE, results |-> <<>>],
      [kind |-> "response", status |-> 200, json |-> FALSE, results |-> <<>>],
      [kind |-> "timeout", status |-> 0, json |-> FALSE, results |-> <<>>],
      [kind |-> "connection_error", status |-> 0, json |-> FALSE, results |-> <<>>] }

\* the two credentials, app.py lines 21-22
KEYS == {"OPENAI_API_KEY", "BRAVE_API_KEY"}

\* the threads (one per browser session) that may be inside _get_agent
Callers == {1, 2}

user_turn(content) == [role |-> "user", content |-> content]
assistant_turn(content) == [role |-> "assistant", content |-> content]

NoServed == [valid |-> FALSE, question |-> <<>>, answer |-> <<>>, agent |-> 0,
             keys |-> <<>>]

(***************************************************************************)
(* _get_agent and the memory of an agent.                                  *)
(***************************************************************************)
\* _get_agent(fs), lines 98-126: the agent returned and the cache after
\* the call.  is_state tells whether fs is the very dict object held in
\* st.session_state, which the closure of build_document_search then shares.
\* a slip: the cache is not consulted, every call builds a new agent
get_agent_always_new(key, fs, is_state) ==
    [agent |-> Len(agents) + 1,
     cache |-> [k \in DOMAIN agent_cache \cup {key} |->
                   IF k = key THEN Len(agents) + 1 ELSE agent_cache[k]],
     agents |-> Append(agents, [memory |-> <<>>, docs |-> fs,
                                shared |-> is_state])]

get_agent_with(key, fs, is_state) ==
    IF key \in DOMAIN agent_cache
    THEN [agent |-> agent_cache[key], cache |-> agent_cache, agents |-> agents]
    ELSE [agent |-> Len(agents) + 1,
          cache |-> agent_cache @@ (key :> (Len(agents) + 1)),
          agents |-> Append(agents, [memory |-> <<>>, docs |-> fs,
                                     shared |-> is_state])]

get_agent(fs, is_state) == get_agent_with(cache_key(fs), fs, is_state)

\* add_user_message / add_ai_message for one chat turn, lines 136-140
Message(m) ==
    [type |-> IF m.role = "user" THEN "human" ELSE "ai", content |-> m.content]

\* the preload loop of run_agent, lines 135-140
Preload(memory, history) ==
    memory \o [i \in 1..Len(history) |-> Message(history[i])]

\* files.update(...) mutates the dict in place: every closure that shares
\* the dict sees the new contents
ShareUpdate(ags, new_files) ==
    [i \in 1..Len(ags) |->
        IF ags[i].shared THEN [ags[i] EXCEPT !.docs = new_files] ELSE ags[i]]

\* st.session_state.files = files rebinds the name: the old dict stays with
\* the closures that hold it and is never written again
Detach(ags) == [i \in 1..Len(ags) |-> [ags[i] EXCEPT !.shared = FALSE]]

\* app.py lines 80-82, run on every script run
SidebarUpload(f, uploaded) ==
    IF uploaded # <<>> THEN DictUpdate(f, load_files(uploaded)) ELSE f

(***************************************************************************)
(* Initial states.                                                         *)
(***************************************************************************)
\* app.py lines 40-45 and the module state of agent_engine / session_manager
AppInit ==
    /\ chat_history = <<>>
    /\ files = <<>>
    /\ current_session = None
    /\ uploaded_files = <<>>
    /\ saved_sessions = [n \in SessionNames |->
                            [exists |-> FALSE, chat_history |-> <<>>, files |-> <<>>]]
    /\ agent_cache = <<>>
    /\ agents = <<>>
    /\ pc = "idle"
    /\ prompt = <<>>
    /\ plan_steps = <<>>
    /\ agent = 0
    /\ iter = 0
    /\ scratch = <<>>
    /\ answer = <<>>
    /\ sources = <<>>
    /\ error = "none"
    /\ mem_mark = 0
    /\ nprompts = 0
    /\ last_served = NoServed
    /\ calls = <<>>

CiteOff ==
    /\ cite_pc = "off"
    /\ cite_answer = <<>>
    /\ cite_urls = <<>>
    /\ cite_again = <<>>

PlanOff ==
    /\ plan_pc = "off"
    /\ plan_resp = LlmFailure
    /\ plan_result = [raised |-> FALSE, steps |-> <<>>]

DocOff ==
    /\ doc_pc = "off"
    /\ doc_files = <<>>
    /\ doc_query = <<>>
    /\ doc_result = <<>>

\* what is known of a session name that save_session was never called with,
\* and of a load_session result before any call
NeverSaved == [saved |-> FALSE, chat_history |-> <<>>, files |-> <<>>,
               replaced |-> FALSE]
NothingLoaded == [valid |-> FALSE, name |-> None, chat_history |-> <<>>,
                  files |-> <<>>]

\* a running app: agent_engine imported with the keys app.py resolved
BootOff ==
    /\ boot_pc = "off"
    /\ secrets = [k \in KEYS |-> "s"]
    /\ environ = [k \in KEYS |-> "s"]
    /\ engine = [imported |-> TRUE, BRAVE_API_KEY |-> "s"]
    /\ resolved = [k \in KEYS |-> "s"]
    /\ boot_error = "none"
    /\ invoked = {}
    /\ token_sent = None
    /\ boot_runs = 0

RaceOff ==
    /\ race_pc = [c \in Callers |-> "off"]
    /\ race_files = [c \in Callers |-> <<>>]
    /\ race_built = [c \in Callers |-> 0]

PerOff ==
    /\ per_dir = [n \in SessionNames |->
                     [exists |-> FALSE, chat_history |-> <<>>, files |-> <<>>]]
    /\ per_last = [n \in SessionNames |-> NeverSaved]
    /\ per_loaded = NothingLoaded

UnitOff == DocOff /\ BootOff /\ RaceOff /\ PerOff

Init == AppInit /\ CiteOff /\ PlanOff /\ UnitOff

(***************************************************************************)
(* The sidebar, app.py lines 50-83.  Every widget interaction reruns the   *)
(* script; a run without a prompt ends after the sidebar.                  *)
(***************************************************************************)
\* the selectbox is set to a saved session other than the current one:
\* lines 60-65, then lines 80-82 with what the uploader still holds
SelectSession(name) ==
    /\ pc = "idle"
    /\ saved_sessions[name].exists
    /\ name # NEW_SESSION /\ name # current_session
    /\ LET loaded == load_session(saved_sessions, name)
       IN  /\ chat_history' = loaded.chat_history
           /\ files' = SidebarUpload(loaded.files, uploaded_files)
    /\ current_session' = name
    /\ agents' = Detach(agents)
    /\ last_served' = NoServed
    /\ error' = "none"
    /\ UNCHANGED <<uploaded_files, saved_sessions, agent_cache, pc, prompt,
                   plan_steps, agent, iter, scratch, answer, sources, mem_mark,
                   nprompts, calls, citeVars, planVars, unitVars>>

\* the Save Session button: lines 67-71, then lines 80-82
ClickSave ==
    /\ pc = "idle"
    /\ LET name == IF current_session = None THEN TIMESTAMP_NAME
                   ELSE current_session
       IN  /\ saved_sessions' = save_session(saved_sessions, name, chat_history, files)
           /\ current_session' = name
    /\ files' = SidebarUpload(files, uploaded_files)
    /\ agents' = ShareUpdate(agents, files')
    /\ error' = "none"
    /\ UNCHANGED <<chat_history, uploaded_files, agent_cache, pc, prompt,
                   plan_steps, agent, iter, scratch, answer, sources, mem_mark,
                   histVars, citeVars, planVars, unitVars>>

\* the file uploader is given a new list of files (or emptied): lines 74-83
Upload(list) ==
    /\ pc = "idle"
    /\ list # uploaded_files
    /\ uploaded_files' = list
    /\ files' = SidebarUpload(files, list)
    /\ agents' = ShareUpdate(agents, files')
    /\ error' = "none"
    /\ UNCHANGED <<chat_history, current_session, saved_sessions, agent_cache,
                   pc, prompt, plan_steps, agent, iter, scratch, answer, sources,
                   mem_mark, histVars, citeVars, planVars, unitVars>>

(***************************************************************************)
(* The chat interface, app.py lines 92-117, one action per call it makes.  *)
(***************************************************************************)
FrameIdle(err) ==
    /\ pc' = "idle"
    /\ prompt' = <<>>
    /\ plan_steps' = <<>>
    /\ agent' = 0
    /\ iter' = 0
    /\ scratch' = <<>>
    /\ answer' = <<>>
    /\ sources' = <<>>
    /\ mem_mark' = 0
    /\ error' = err

\* a prompt is entered: the sidebar runs (lines 80-82), then lines 93-96
Submit(q) ==
    /\ pc = "idle"
    /\ nprompts < MaxPrompts
    /\ files' = SidebarUpload(files, uploaded_files)
    /\ agents' = ShareUpdate(agents, files')
    /\ chat_history' = Append(chat_history, user_turn(q))
    /\ prompt' = q
    /\ pc' = "plan"
    /\ error' = "none"
    /\ nprompts' = nprompts + 1
    /\ UNCHANGED <<current_session, uploaded_files, saved_sessions, agent_cache,
                   plan_steps, agent, iter, scratch, answer, sources, mem_mark,
                   last_served, calls, citeVars, planVars, unitVars>>

\* lines 99-101: generate_plan(prompt, files); resp is what the model call does
GeneratePlan(resp) ==
    /\ pc = "plan"
    /\ LET r == generate_plan(resp)
       IN  IF r.raised
           THEN /\ FrameIdle("generate_plan")
           ELSE /\ plan_steps' = r.steps
                /\ pc' = "run_agent"
                /\ UNCHANGED <<prompt, agent, iter, scratch, answer, sources,
                               error, mem_mark>>
    /\ UNCHANGED <<appVars, cacheVars, histVars, citeVars, planVars, unitVars>>

\* a slip: the plan steps are handed to the agent with the chat turns
RunAgentBeginWithPlan ==
    /\ pc = "run_agent"
    /\ LET g == get_agent(files, TRUE)
       IN  /\ agent' = g.agent
           /\ agent_cache' = g.cache
           /\ mem_mark' = Len(g.agents[g.agent].memory)
           /\ agents' = [g.agents EXCEPT ![g.agent].memory =
                            Preload(g.agents[g.agent].memory, chat_history)
                            \o [i \in 1..Len(plan_steps) |->
                                   [type |-> "human", content |-> plan_steps[i]]]]
    /\ pc' = "reasoning"
    /\ iter' = 0
    /\ scratch' = <<>>
    /\ UNCHANGED <<appVars, prompt, plan_steps, answer, sources, error,
                   histVars, citeVars, planVars, unitVars>>

\* run_agent lines 131-140: _get_agent and the preload of the memory
RunAgentBegin ==
    /\ pc = "run_agent"
    /\ LET g == get_agent(files, TRUE)
       IN  /\ agent' = g.agent
           /\ agent_cache' = g.cache
           /\ mem_mark' = Len(g.agents[g.agent].memory)
           /\ agents' = [g.agents EXCEPT ![g.agent].memory =
                            Preload(g.agents[g.agent].memory, chat_history)]
    /\ pc' = "reasoning"
    /\ iter' = 0
    /\ scratch' = <<>>
    /\ UNCHANGED <<appVars, prompt, plan_steps, answer, sources, error,
                   histVars, citeVars, planVars, unitVars>>

\* agent.run, line 142: the model picks web_search; http is what the request does
InvokeWebSearch(http) ==
    /\ pc = "reasoning"
    /\ iter < MaxIter
    /\ LET r == brave_search(http)
       IN  IF r.raised
           THEN FrameIdle("brave_search")
           ELSE /\ scratch' = Append(scratch, [tool |-> "web_search",
                                               observation |-> r.text])
                /\ iter' = iter + 1
                /\ UNCHANGED <<pc, prompt, plan_steps, agent, answer, sources,
                               error, mem_mark>>
    /\ UNCHANGED <<appVars, cacheVars, histVars, citeVars, planVars, unitVars>>

\* agent.run, line 142: the model picks document_search with a query
InvokeDocumentSearch(query) ==
    /\ pc = "reasoning"
    /\ iter < MaxIter
    /\ scratch' = Append(scratch,
                         [tool |-> "document_search",
                          observation |-> search_documents(agents[agent].docs, query)])
    /\ iter' = iter + 1
    /\ UNCHANGED <<pc, prompt, plan_steps, agent, answer, sources, error, mem_mark>>
    /\ UNCHANGED <<appVars, cacheVars, histVars, citeVars, planVars, unitVars>>

\* agent.run, line 142: a model call of the reasoning loop raises
ReasoningFails ==
    /\ pc = "reasoning"
    /\ FrameIdle("agent.run")
    /\ UNCHANGED <<appVars, cacheVars, histVars, citeVars, planVars, unitVars>>

\* agent.run returns the final answer (the memory saves the question and the
\* answer), then lines 144-149
RunAgentReturn(ans) ==
    /\ pc = "reasoning"
    /\ agents' = [agents EXCEPT ![agent].memory =
                     @ \o <<[type |-> "human", content |-> prompt],
                            [type |-> "ai", content |-> ans]>>]
    /\ answer' = ans
    /\ sources' = ExtractCitations(ans)
    /\ scratch' = <<>>
    /\ iter' = 0
    /\ pc' = "store"
    /\ UNCHANGED <<appVars, agent_cache, prompt, plan_steps, agent, error,
                   mem_mark, histVars, citeVars, planVars, unitVars>>

\* a slip: the caller records the question a second time with the answer
StoreQuestionAgain ==
    /\ pc = "store"
    /\ chat_history' = chat_history \o <<user_turn(prompt), assistant_turn(answer)>>
    /\ saved_sessions' =
          save_session(saved_sessions,
                       IF current_session = None THEN AUTOSAVE ELSE current_session,
                       chat_history', files)
    /\ last_served' = [valid |-> TRUE, question |-> prompt, answer |-> answer,
                       agent |-> agent, keys |-> Keys(files)]
    /\ FrameIdle("none")
    /\ UNCHANGED <<files, current_session, uploaded_files, cacheVars, nprompts,
                   calls, citeVars, planVars, unitVars>>

\* lines 113-117: the assistant turn is stored and the session auto-saved
Store ==
    /\ pc = "store"
    /\ chat_history' = Append(chat_history, assistant_turn(answer))
    /\ saved_sessions' =
          save_session(saved_sessions,
                       IF current_session = None THEN AUTOSAVE ELSE current_session,
                       chat_history', files)
    /\ last_served' = [valid |-> TRUE, question |-> prompt, answer |-> answer,
                       agent |-> agent, keys |-> Keys(files)]
    /\ FrameIdle("none")
    /\ UNCHANGED <<files, current_session, uploaded_files, cacheVars, nprompts,
                   calls, citeVars, planVars, unitVars>>

Next ==
    \/ \E name \in SessionNames : SelectSession(name)
    \/ ClickSave
    \/ \E list \in UploadLists : Upload(list)
    \/ \E q \in {NthQuestion(nprompts + 1)} : Submit(q)
    \/ \E resp \in PlanResponses : GeneratePlan(resp)
    \/ RunAgentBegin
    \/ \E http \in HttpOutcomes : InvokeWebSearch(http)
    \/ \E query \in DocQueries : InvokeDocumentSearch(query)
    \/ ReasoningFails
    \/ \E ans \in Answers : RunAgentReturn(ans)
    \/ Store

Spec == Init /\ [][Next]_vars

(***************************************************************************)
(* Citation extraction on its own: the answer is any text of AnswerTexts.  *)
(***************************************************************************)
UrlPieces == {HTTP \o COLON_SLASHES, HTTP \o <<"s">> \o COLON_SLASHES,
              <<"a">>, <<"b">>, <<" ">>, <<"\n">>}

RECURSIVE Concat(_)
Concat(xs) == IF xs = <<>> THEN <<>> ELSE Head(xs) \o Concat(Tail(xs))

\* every text made of at most MaxPieces pieces
ShortTexts ==
    {Concat(ps) : ps \in UNION {[1..n -> UrlPieces] : n \in 0..MaxPieces}}

UrlWords ==
    << <<"h", "t", "t", "p", ":", "/", "/", "a">>,
       <<"h", "t", "t", "p", ":", "/", "/", "b">>,
       <<"h", "t", "t", "p", "s", ":", "/", "/", "a">>,
       <<"h", "t", "t", "p", "s", ":", "/", "/", "b">>,
       <<"h", "t", "t", "p", ":", "/", "/", "a", "b">>,
       <<"h", "t", "t", "p", ":", "/", "/", "b", "a">>,
       <<"h", "t", "t", "p", "s", ":", "/", "/", "a", "b">> >>

\* texts of up to MaxWords URLs, separated by blanks or newlines, taken
\* from UrlWords in several orders (with repetitions past its length)
LongTexts ==
    {Join(sep, [k \in 1..n |-> UrlWords[((r + k * step) % Len(UrlWords)) + 1]]) :
        n \in 0..MaxWords, r \in 0..(Len(UrlWords) - 1),
        step \in {1, 3, Len(UrlWords) - 1}, sep \in {<<" ">>, <<"\n">>}}

AnswerTexts == ShortTexts \cup LongTexts

CiteInit ==
    /\ cite_pc = "in"
    /\ cite_answer \in AnswerTexts
    /\ cite_urls = <<>>
    /\ cite_again = <<>>

\* lines 147-148 on the answer
CiteExtract ==
    /\ cite_pc = "in"
    /\ cite_urls' = ExtractCitations(cite_answer)
    /\ cite_pc' = "out"
    /\ UNCHANGED <<cite_answer, cite_again, appVars, cacheVars, frameVars,
                   histVars, planVars, unitVars>>

\* lines 147-148 on the newline-joined output of the first extraction
CiteAgain ==
    /\ cite_pc = "out"
    /\ cite_again' = ExtractCitations(Join(<<"\n">>, cite_urls))
    /\ cite_pc' = "again"
    /\ UNCHANGED <<cite_answer, cite_urls, appVars, cacheVars, frameVars,
                   histVars, planVars, unitVars>>

CiteNext == CiteExtract \/ CiteAgain

InitCite == AppInit /\ CiteInit /\ PlanOff /\ UnitOff

SpecCite == InitCite /\ [][CiteNext]_vars

(***************************************************************************)
(* Plan generation on its own: the model call fails or answers any text    *)
(* of PlanTexts.                                                           *)
(***************************************************************************)
PlanAlphabet == {"a", "-", " ", "\n"}

PlanTexts == UNION {[1..n -> PlanAlphabet] : n \in 0..MaxPlanLen}

PlanInit ==
    /\ plan_pc = "call"
    /\ plan_resp \in {LlmFailure} \cup {[ok |-> TRUE, content |-> t] : t \in PlanTexts}
    /\ plan_result = [raised |-> FALSE, steps |-> <<>>]

PlanCall ==
    /\ plan_pc = "call"
    /\ plan_result' = generate_plan(plan_resp)
    /\ plan_pc' = "done"
    /\ UNCHANGED <<plan_resp, appVars, cacheVars, frameVars, histVars, citeVars, unitVars>>

PlanNext == PlanCall

InitPlan == AppInit /\ CiteOff /\ PlanInit /\ UnitOff

SpecPlan == InitPlan /\ [][PlanNext]_vars

(***************************************************************************)
(* The agent cache on its own: any sequence of _get_agent calls.           *)
(***************************************************************************)
CONTENT_X == [type |-> "str", data |-> <<"x">>]
CONTENT_Y == [type |-> "str", data |-> <<"y">>]
CONTENT_DF == [type |-> "df", data |-> <<"x", "\n", "1", "\n">>]

\* dicts over the names a.txt and b.CSV, in both insertion orders
CacheDicts ==
    LET as == {[name |-> NAME_A, content |-> c] : c \in {CONTENT_X, CONTENT_Y}}
        bs == {[name |-> NAME_B, content |-> CONTENT_DF]}
    IN  {<<>>} \cup {<<a>> : a \in as} \cup {<<b>> : b \in bs}
        \cup {<<a, b>> : a \in as, b \in bs} \cup {<<b, a>> : a \in as, b \in bs}

\* _get_agent(d) called with a dict of the caller
CallGetAgent(d) ==
    /\ Len(calls) < MaxCalls
    /\ LET g == get_agent(d, FALSE)
       IN  /\ agent_cache' = g.cache
           /\ agents' = g.agents
           /\ calls' = Append(calls, [keys |-> Keys(d), agent |-> g.agent])
    /\ UNCHANGED <<appVars, frameVars, nprompts, last_served, citeVars, planVars, unitVars>>

CacheNext == \E d \in CacheDicts : CallGetAgent(d)

SpecCache == Init /\ [][CacheNext]_vars

(***************************************************************************)
(* The document search on its own: any dict of DocDicts, any query.        *)
(***************************************************************************)
NAME_C == <<"c", ".", "t", "x", "t">>

\* the entries a searched dict is made of: text files, a DataFrame, and the
\* placeholder text a loaded session holds for a DataFrame
DocEntries ==
    {[name |-> NAME_A, content |-> c] :
        c \in {CONTENT_X, CONTENT_Y,
               [type |-> "str", data |-> <<"a", "X", "\n", "b">>]}}
    \cup {[name |-> NAME_B, content |-> c] :
        c \in {CONTENT_DF, [type |-> "str", data |-> DATAFRAME_PLACEHOLDER]}}
    \cup {[name |-> NAME_C, content |-> c] :
        c \in {[type |-> "str", data |-> <<"X", "y">>],
               [type |-> "str", data |-> <<>>]}}

\* dicts of at most MaxDocs entries with distinct names, in every order
DocDicts ==
    {d \in UNION {[1..n -> DocEntries] : n \in 0..MaxDocs} :
        \A i, j \in 1..Len(d) : i # j => d[i].name # d[j].name}

SearchQueries == {<<>>, <<"x">>, <<"X">>, <<"y">>, <<"X", "y">>, <<"b">>, <<"1">>}

DocInit ==
    /\ doc_pc = "call"
    /\ doc_files \in DocDicts
    /\ doc_query \in SearchQueries
    /\ doc_result = <<>>

\* _search_documents(query) of build_document_search(files)
DocSearch ==
    /\ doc_pc = "call"
    /\ doc_result' = search_documents(doc_files, doc_query)
    /\ doc_pc' = "done"
    /\ UNCHANGED <<doc_files, doc_query, appVars, cacheVars, frameVars,
                   histVars, citeVars, planVars, bootVars, raceVars, perVars>>

DocNext == DocSearch

InitDoc == AppInit /\ CiteOff /\ PlanOff /\ DocInit /\ BootOff /\ RaceOff /\ PerOff

SpecDoc == InitDoc /\ [][DocNext]_vars

(***************************************************************************)
(* Start-up of a script run, app.py lines 13-29.  The first import of      *)
(* agent_engine runs its module-level code (agent_engine.py lines 17, 25   *)
(* and 74); later script runs of the process find the module imported.     *)
(* What st.secrets and the environment of the process hold is an input.    *)
(***************************************************************************)
\* os.getenv(k, "")
Getenv(env, k) == IF env[k] = None THEN "" ELSE env[k]

\* lines 21-22: st.secrets.get(k, os.getenv(k, "")) for both keys
ResolveKeys(sec, env) ==
    [k \in KEYS |-> IF sec[k] = None THEN Getenv(env, k) ELSE sec[k]]

\* a slip: the script stops only when both keys are missing
ConfigMissingBoth(keys) ==
    keys["OPENAI_API_KEY"] = "" /\ keys["BRAVE_API_KEY"] = ""

\* line 23: not OPENAI_API_KEY or not BRAVE_API_KEY
ConfigMissing(keys) ==
    keys["OPENAI_API_KEY"] = "" \/ keys["BRAVE_API_KEY"] = ""

\* a process that has not run the script yet
BootInit ==
    /\ boot_pc = "idle"
    /\ secrets \in [KEYS -> {None, "s"}]
    /\ environ \in [KEYS -> {None, "e"}]
    /\ engine = [imported |-> FALSE, BRAVE_API_KEY |-> ""]
    /\ resolved = [k \in KEYS |-> ""]
    /\ boot_error = "none"
    /\ invoked = {}
    /\ token_sent = None
    /\ boot_runs = 0

\* a script run starts: lines 13-15.  The first import of agent_engine
\* captures BRAVE_API_KEY (line 25) and constructs the model client (line
\* 74); llm_ok tells whether ChatOpenAI accepts an environment without
\* OPENAI_API_KEY or raises, which depends on the installed library.  A
\* failed import leaves the module not imported.
BootImport(llm_ok) ==
    /\ boot_pc = "idle"
    /\ boot_runs < MaxRuns
    /\ boot_runs' = boot_runs + 1
    /\ invoked' = {}
    /\ token_sent' = None
    /\ IF engine.imported
       THEN /\ boot_pc' = "imported"
            /\ boot_error' = "none"
            /\ UNCHANGED engine
       ELSE IF Getenv(environ, "OPENAI_API_KEY") = "" /\ ~llm_ok
       THEN /\ boot_pc' = "idle"
            /\ boot_error' = "import"
            /\ UNCHANGED engine
       ELSE /\ boot_pc' = "imported"
            /\ boot_error' = "none"
            /\ engine' = [imported |-> TRUE,
                          BRAVE_API_KEY |-> Getenv(environ, "BRAVE_API_KEY")]
    /\ UNCHANGED <<secrets, environ, resolved>>
    /\ UNCHANGED <<appVars, cacheVars, frameVars, histVars, citeVars, planVars,
                   docVars, raceVars, perVars>>

\* lines 21-29: the keys are resolved; st.error and st.stop if one is
\* missing, else both are written to os.environ
BootConfigure ==
    /\ boot_pc = "imported"
    /\ resolved' = ResolveKeys(secrets, environ)
    /\ IF ConfigMissing(resolved')
       THEN /\ boot_error' = "config"
            /\ boot_pc' = "idle"
            /\ UNCHANGED environ
       ELSE /\ environ' = resolved'
            /\ boot_pc' = "serving"
            /\ UNCHANGED boot_error
    /\ UNCHANGED <<secrets, engine, invoked, token_sent, boot_runs>>
    /\ UNCHANGED <<appVars, cacheVars, frameVars, histVars, citeVars, planVars,
                   docVars, raceVars, perVars>>

\* lines 50-117: the rest of the script run calls the functions of fns; a
\* web search of the agent sends the key agent_engine captured (line 31)
BootServe(fns) ==
    /\ boot_pc = "serving"
    /\ invoked' = fns
    /\ token_sent' = IF "brave_search" \in fns THEN engine.BRAVE_API_KEY ELSE None
    /\ boot_pc' = "idle"
    /\ UNCHANGED <<secrets, environ, engine, resolved, boot_error, boot_runs>>
    /\ UNCHANGED <<appVars, cacheVars, frameVars, histVars, citeVars, planVars,
                   docVars, raceVars, perVars>>

\* between two script runs the secrets of the app are edited
BootEditSecrets(sec) ==
    /\ boot_pc = "idle"
    /\ sec # secrets
    /\ secrets' = sec
    /\ UNCHANGED <<boot_pc, environ, engine, resolved, boot_error, invoked,
                   token_sent, boot_runs>>
    /\ UNCHANGED <<appVars, cacheVars, frameVars, histVars, citeVars, planVars,
                   docVars, raceVars, perVars>>

BootNext ==
    \/ \E llm_ok \in BOOLEAN : BootImport(llm_ok)
    \/ BootConfigure
    \/ \E fns \in {{}, {"load_session"}, {"save_session"}, {"generate_plan"},
                   {"generate_plan", "run_agent", "save_session"},
                   {"generate_plan", "run_agent", "brave_search", "save_session"}} :
           BootServe(fns)
    \/ \E sec \in [KEYS -> {None, "s"}] : BootEditSecrets(sec)

InitBoot == AppInit /\ CiteOff /\ PlanOff /\ DocOff /\ BootInit /\ RaceOff /\ PerOff

SpecBoot == InitBoot /\ [][BootNext]_vars

(***************************************************************************)
(* _get_agent entered by two threads.  Streamlit runs the script of every  *)
(* browser session in a thread of its own and _agent_cache is a module     *)
(* global; _get_agent takes no lock, so the threads may be switched        *)
(* between the lookup (line 101), the construction (lines 105-124) and     *)
(* the store (line 125).                                                   *)
(***************************************************************************)
\* lines 100-102 for caller c with the dict d: the lookup; a hit returns
RaceEnter(c, d) ==
    /\ race_pc[c] = "idle"
    /\ Len(calls) + Cardinality({x \in Callers : race_pc[x] # "idle"}) < MaxCalls
    /\ IF cache_key(d) \in DOMAIN agent_cache
       THEN /\ calls' = Append(calls, [keys |-> Keys(d),
                                       agent |-> agent_cache[cache_key(d)]])
            /\ UNCHANGED <<race_pc, race_files>>
       ELSE /\ race_pc' = [race_pc EXCEPT ![c] = "miss"]
            /\ race_files' = [race_files EXCEPT ![c] = d]
            /\ UNCHANGED calls
    /\ UNCHANGED <<race_built, cacheVars, appVars, frameVars, nprompts,
                   last_served, citeVars, planVars, docVars, bootVars, perVars>>

\* lines 105-124 for caller c: the tools, the memory and the agent are built
RaceBuild(c) ==
    /\ race_pc[c] = "miss"
    /\ agents' = Append(agents, [memory |-> <<>>, docs |-> race_files[c],
                                 shared |-> FALSE])
    /\ race_built' = [race_built EXCEPT ![c] = Len(agents) + 1]
    /\ race_pc' = [race_pc EXCEPT ![c] = "built"]
    /\ UNCHANGED <<race_files, agent_cache, appVars, frameVars, histVars,
                   citeVars, planVars, docVars, bootVars, perVars>>

\* lines 125-126 for caller c: the agent is stored under the key and returned
RaceStore(c) ==
    /\ race_pc[c] = "built"
    /\ agent_cache' = [k \in DOMAIN agent_cache \cup {cache_key(race_files[c])} |->
                          IF k = cache_key(race_files[c]) THEN race_built[c]
                          ELSE agent_cache[k]]
    /\ calls' = Append(calls, [keys |-> Keys(race_files[c]),
                               agent |-> race_built[c]])
    /\ race_pc' = [race_pc EXCEPT ![c] = "idle"]
    /\ race_files' = [race_files EXCEPT ![c] = <<>>]
    /\ race_built' = [race_built EXCEPT ![c] = 0]
    /\ UNCHANGED <<agents, appVars, frameVars, nprompts, last_served,
                   citeVars, planVars, docVars, bootVars, perVars>>

RaceNext ==
    \/ \E c \in Callers : \E d \in {<<>>, <<[name |-> NAME_A, content |-> CONTENT_X]>>,
                                   <<[name |-> NAME_A, content |-> CONTENT_Y]>>} :
           RaceEnter(c, d)
    \/ \E c \in Callers : RaceBuild(c)
    \/ \E c \in Callers : RaceStore(c)

\* both threads outside _get_agent, the cache empty
InitRace ==
    /\ AppInit /\ CiteOff /\ PlanOff /\ DocOff /\ BootOff /\ PerOff
    /\ race_pc = [c \in Callers |-> "idle"]
    /\ race_files = [c \in Callers |-> <<>>]
    /\ race_built = [c \in Callers |-> 0]

SpecRace == InitRace /\ [][RaceNext]_vars

(***************************************************************************)
(* The app used from more than one browser session.  A page opened (or     *)
(* reloaded) starts a new Streamlit session, whose st.session_state is     *)
(* initialised by app.py lines 40-45; _agent_cache and the saved sessions  *)
(* belong to the process and stay.                                         *)
(***************************************************************************)
\* the user goes on in a new browser session
NewBrowserSession ==
    /\ pc = "idle"
    /\ chat_history' = <<>>
    /\ files' = <<>>
    /\ current_session' = None
    /\ uploaded_files' = <<>>
    /\ agents' = Detach(agents)
    /\ last_served' = NoServed
    /\ error' = "none"
    /\ UNCHANGED <<saved_sessions, agent_cache, pc, prompt, plan_steps, agent,
                   iter, scratch, answer, sources, mem_mark, nprompts, calls,
                   citeVars, planVars, unitVars>>

BrowserNext == Next \/ NewBrowserSession

SpecBrowser == Init /\ [][BrowserNext]_vars

(***************************************************************************)
(* save_session and load_session on their own: any sequence of saves and   *)
(* loads over the session names.                                           *)
(***************************************************************************)
\* save_session(name, history, fs), session_manager.py lines 20-26
PerSave(name, history, fs) ==
    /\ per_dir' = save_session(per_dir, name, history, fs)
    /\ per_last' = [per_last EXCEPT ![name] =
                       [saved |-> TRUE, chat_history |-> history, files |-> fs,
                        replaced |-> per_last[name].saved]]
    /\ per_loaded' = NothingLoaded
    /\ UNCHANGED <<appVars, cacheVars, frameVars, histVars, citeVars, planVars,
                   docVars, bootVars, raceVars>>

\* load_session(name), session_manager.py lines 29-37
PerLoad(name) ==
    /\ LET r == load_session(per_dir, name)
       IN  per_loaded' = [valid |-> TRUE, name |-> name,
                          chat_history |-> r.chat_history, files |-> r.files]
    /\ UNCHANGED <<per_dir, per_last, appVars, cacheVars, frameVars, histVars,
                   citeVars, planVars, docVars, bootVars, raceVars>>

PerNext ==
    \/ \E name \in SessionNames :
       \E history \in {<<>>, <<user_turn(NthQuestion(1))>>,
                       <<user_turn(NthQuestion(1)), assistant_turn(<<"a", "\n", "b">>)>>} :
       \E fs \in CacheDicts : PerSave(name, history, fs)
    \/ \E name \in SessionNames : PerLoad(name)

\* an empty directory saved_sessions
InitPer == AppInit /\ CiteOff /\ PlanOff /\ DocOff /\ BootOff /\ RaceOff /\ PerOff

SpecPer == InitPer /\ [][PerNext]_vars

(***************************************************************************)
(* Properties.                                                             *)
(***************************************************************************)
\* the memory of the agent run_agent is using, as chat turns
MemoryOf(a) == agents[a].memory

PreloadedTurns == [i \in 1..Len(chat_history) |-> Message(chat_history[i])]

\* C1: when agent.run has returned, the memory of the session starts with
\* exactly the turns of the caller's chat_history, each once and in order,
\* followed by the new question.
C1_MemoryPrefixIsPreload ==
    pc = "store" =>
        LET m == MemoryOf(agent)
            n == Len(chat_history)
        IN  /\ Len(m) >= n + 1
            /\ SubSeq(m, 1, n) = PreloadedTurns
            /\ m[n + 1] = [type |-> "human", content |-> prompt]

\* C2: two _get_agent calls get the same instance exactly when their files
\* have the same set of names, whatever the insertion order, and an entry of
\* the cache is never replaced or removed.
C2_OneInstancePerNameSet ==
    /\ [](\A i, j \in 1..Len(calls) :
            (SeqToSet(calls[i].keys) = SeqToSet(calls[j].keys))
                <=> (calls[i].agent = calls[j].agent))
    /\ [][\A k \in DOMAIN agent_cache :
            k \in DOMAIN agent_cache' /\ agent_cache'[k] = agent_cache[k]]_vars

\* C2 witness: the same two names in both insertion orders got one instance,
\* and a call with another name set got another instance
C2_Witness ==
    \E i, j, k \in 1..Len(calls) :
        /\ calls[i].keys = <<NAME_A, NAME_B>>
        /\ calls[j].keys = <<NAME_B, NAME_A>>
        /\ calls[i].agent = calls[j].agent
        /\ calls[k].keys = <<NAME_A>>
        /\ calls[k].agent # calls[i].agent

\* C3: brave_search never raises: no script run ends with an exception
\* raised by brave_search.
C3_SearchNeverRaises == error # "brave_search"

\* C4: generate_plan returns a non-empty list of steps whenever the model
\* call succeeds, and raises whenever the model call fails.
C4_PlanNonEmptyOrRaises ==
    plan_pc = "done" =>
        IF plan_resp.ok
        THEN ~plan_result.raised /\ plan_result.steps # <<>>
        ELSE plan_result.raised

\* C5: when a question follows an answered question of the same chat session
\* with the same set of document names, run_agent uses the agent that served
\* the first one, and the chat_history it preloads holds the first question
\* directly followed by the first answer, before the new question at its end.
C5_SecondCallSeesFirst ==
    (/\ pc \in {"reasoning", "store"}
     /\ last_served.valid
     /\ SeqToSet(last_served.keys) = SeqToSet(Keys(files)))
    => /\ agent = last_served.agent
       /\ chat_history[Len(chat_history)] = user_turn(prompt)
       /\ \E p \in 1..(Len(chat_history) - 2) :
             /\ chat_history[p] = user_turn(last_served.question)
             /\ chat_history[p + 1] = assistant_turn(last_served.answer)

\* C5 witness: the second of two questions on the same documents is answered
C5_Witness ==
    /\ pc = "store"
    /\ last_served.valid
    /\ last_served.question # prompt
    /\ Keys(files) = <<NAME_A>>
    /\ last_served.keys = <<NAME_A>>

\* C6: the document_search tool of the agent that _get_agent(files) returned
\* searches exactly the contents of files.
C6_SearchesPassedFiles ==
    pc \in {"reasoning", "store"} => agents[agent].docs = files

\* C7: a failure of the model call in generate_plan or in agent.run ends the
\* script run with that exception and leaves nothing behind: no assistant
\* turn, no session file written, and the memory of the agent as it was
\* before the turns were preloaded.
C7_FailureLeavesNothing ==
    [][/\ pc \in {"plan", "run_agent", "reasoning"}
          => /\ saved_sessions' = saved_sessions
             /\ chat_history' = chat_history
       /\ (pc # "idle" /\ pc' = "idle" /\ error' \in {"generate_plan", "agent.run"})
          => /\ error' = "agent.run" => Len(agents'[agent].memory) = mem_mark
    ]_vars

\* C8: a prompt adds one user turn holding the prompt, its answer adds one
\* assistant turn holding the answer, both at the end of chat_history, and
\* between the two (generate_plan, run_agent) neither chat_history nor files
\* changes.
C8_CallerRecordsBothTurns ==
    [][/\ (pc = "idle" /\ pc' = "plan")
          => chat_history' = Append(chat_history, user_turn(prompt'))
       /\ pc \in {"plan", "run_agent", "reasoning"}
          => chat_history' = chat_history /\ files' = files
       /\ (pc = "store" /\ pc' = "idle")
          => /\ chat_history' = Append(chat_history, assistant_turn(answer))
             /\ chat_history[Len(chat_history)] = user_turn(prompt)
             /\ files' = files
    ]_vars

\* C8 witness: a prompt has been answered and both turns are recorded
C8_Witness ==
    /\ pc = "idle"
    /\ last_served.valid
    /\ Len(chat_history) >= 2
    /\ chat_history[Len(chat_history) - 1] = user_turn(last_served.question)
    /\ chat_history[Len(chat_history)] = assistant_turn(last_served.answer)

\* a position of s where "http://" or "https://" starts and is followed by
\* a character that is not whitespace
SchemeAt(s, i) ==
    \E scheme \in {HTTP \o COLON_SLASHES, HTTP \o <<"s">> \o COLON_SLASHES} :
        /\ StartsWithAt(s, i, scheme)
        /\ i + Len(scheme) <= Len(s)
        /\ ~IsSpace(s[i + Len(scheme)])

NoSpaceIn(s, i, j) == \A k \in i..j : ~IsSpace(s[k])

\* the substrings of s that match scheme + non-whitespace, as a scan from
\* the left takes them: from the first scheme of a whitespace-free stretch
\* to the end of that stretch
UrlSubstrings(s) ==
    {SubSeq(s, i, e) : <<i, e>> \in
        {sp \in (1..Len(s)) \X (1..Len(s)) :
            /\ sp[1] <= sp[2]
            /\ SchemeAt(s, sp[1])
            /\ NoSpaceIn(s, sp[1], sp[2])
            /\ (sp[2] = Len(s) \/ IsSpace(s[sp[2] + 1]))
            /\ \A k \in 1..(sp[1] - 1) : ~(SchemeAt(s, k) /\ NoSpaceIn(s, k, sp[1]))}}

\* C9: the citation list holds the 5 smallest (all, if fewer) of the distinct
\* URL substrings of the answer, in ascending order without duplicates.
C9_CitationsSortedCapped ==
    cite_pc # "in" /\ cite_pc # "off" =>
        LET M == UrlSubstrings(cite_answer)
            U == cite_urls
        IN  /\ Len(U) = (IF Cardinality(M) < CITATION_CAP THEN Cardinality(M)
                         ELSE CITATION_CAP)
            /\ \A i \in 1..Len(U) : U[i] \in M
            /\ \A i, j \in 1..Len(U) : i < j => StrLess(U[i], U[j])
            /\ \A m \in M \ SeqToSet(U) : \A i \in 1..Len(U) : StrLess(U[i], m)

\* C9 witness: an answer with more than 5 distinct URLs, not in sorted order,
\* has been cut to 5
C9_Witness ==
    /\ cite_pc = "out"
    /\ Cardinality(UrlSubstrings(cite_answer)) > CITATION_CAP
    /\ Len(cite_urls) = CITATION_CAP
    /\ FindAllUrls(cite_answer, 1)[1] \notin SeqToSet(cite_urls)

\* C10: extracting the citations of the newline-joined citation list gives
\* the same list again.
C10_ExtractionIdempotent ==
    cite_pc = "again" => cite_again = cite_urls

\* C10 witness: a list of several citations has been extracted twice
C10_Witness ==
    /\ cite_pc = "again"
    /\ Len(cite_urls) = CITATION_CAP
    /\ cite_answer # Join(<<"\n">>, cite_urls)

\* q in s
Contains(s, q) == \E i \in 1..(Len(s) + 1) : StartsWithAt(s, i, q)

\* the names of the documents whose textual form holds the query, case
\* ignored, in the order of the dict
RECURSIVE MatchingNames(_, _)
MatchingNames(d, query) ==
    IF d = <<>> THEN <<>>
    ELSE (IF Contains(LowerStr(Head(d).content.data), LowerStr(query))
          THEN <<Head(d).name>> ELSE <<>>) \o MatchingNames(Tail(d), query)

\* the pieces of s from position i on, when s is cut at the positions of cuts
RECURSIVE Pieces(_, _, _)
Pieces(s, i, cuts) ==
    IF \A c \in cuts : c < i THEN <<SubSeq(s, i, Len(s))>>
    ELSE LET c == CHOOSE x \in cuts : x >= i /\ \A y \in cuts : y >= i => x <= y
         IN  <<SubSeq(s, i, c - 1)>> \o Pieces(s, c + 1, cuts)

\* C11: the document search returns the sentinel "No match in uploaded
\* documents." exactly when no document's textual form holds the query (case
\* ignored); otherwise the result is made of one entry per matching document,
\* newline-separated and in the order of the dict, each holding the name of
\* its document.
C11_SentinelIffNoMatch ==
    doc_pc = "done" =>
        LET names == MatchingNames(doc_files, doc_query)
            newlines == {i \in 1..Len(doc_result) : doc_result[i] = "\n"}
        IN  /\ (doc_result = NO_MATCH) <=> (names = <<>>)
            /\ names # <<>> =>
                  \E cuts \in SUBSET newlines :
                      LET entries == Pieces(doc_result, 1, cuts)
                      IN  /\ Len(entries) = Len(names)
                          /\ \A k \in 1..Len(names) : Contains(entries[k], names[k])

\* C11 witness: an upper-case query found in a DataFrame and in a text file
\* whose content holds it in lower case
C11_Witness ==
    /\ doc_pc = "done"
    /\ doc_query = <<"X">>
    /\ Len(doc_files) = 2
    /\ doc_files[1].content = CONTENT_DF
    /\ doc_files[2].content = CONTENT_X
    /\ doc_result # NO_MATCH

\* a credential is in neither st.secrets nor the environment
CredentialAbsent == \E k \in KEYS : secrets[k] = None /\ environ[k] = None

\* C12: while a credential is absent no script run gets past the
\* configuration check and none of generate_plan, run_agent, load_session,
\* save_session is called; the run that reaches the check stops there with
\* the configuration error.
C12_FailFastOnMissingKey ==
    /\ [](CredentialAbsent => boot_pc # "serving")
    /\ [][CredentialAbsent =>
            /\ boot_pc' # "serving"
            /\ invoked' # invoked => invoked' = {}
            /\ boot_pc = "imported" => boot_pc' = "idle" /\ boot_error' = "config"
         ]_vars

\* C12 witness: a script run stopped with the configuration error because
\* only the search key is absent
C12_Witness ==
    /\ boot_pc = "idle"
    /\ boot_error = "config"
    /\ secrets["OPENAI_API_KEY"] = "s"
    /\ secrets["BRAVE_API_KEY"] = None
    /\ environ["BRAVE_API_KEY"] = None
    /\ invoked = {}

\* C14: the token a web search sends is the search key app.py resolved from
\* st.secrets or the environment in that script run.
C14_TokenIsResolvedKey ==
    token_sent # None => token_sent = resolved["BRAVE_API_KEY"]

\* every step of every plan the model may answer
PlanStepTexts == UNION {SeqToSet(generate_plan(r).steps) : r \in PlanResponses}

\* C13: the plan is display-only.  No plan step is ever the content of a
\* chat turn or of a message in the memory of an agent; and what run_agent
\* is given (the prompt, chat_history), what it preloads into the memory,
\* what agent.run saves and what the caller records are determined by the
\* prompt, chat_history and the answer alone, whatever plan_steps holds.
C13_PlanDisplayOnly ==
    /\ [](\A s \in PlanStepTexts :
            /\ \A i \in 1..Len(chat_history) : chat_history[i].content # s
            /\ \A a \in 1..Len(agents) : \A i \in 1..Len(agents[a].memory) :
                  agents[a].memory[i].content # s)
    /\ [][/\ pc = "plan" => UNCHANGED <<appVars, cacheVars>>
          /\ (pc = "run_agent" /\ pc' = "reasoning")
             => /\ agents'[agent'].memory =
                      (IF agent' <= Len(agents) THEN agents[agent'].memory ELSE <<>>)
                          \o PreloadedTurns
                /\ chat_history[Len(chat_history)] = user_turn(prompt)
                /\ UNCHANGED <<appVars, prompt>>
          /\ (pc = "reasoning" /\ pc' = "store")
             => /\ agents'[agent].memory =
                      agents[agent].memory \o <<[type |-> "human", content |-> prompt],
                                                [type |-> "ai", content |-> answer']>>
                /\ UNCHANGED <<appVars, prompt>>
          /\ (pc = "store" /\ pc' = "idle")
             => /\ chat_history' = Append(chat_history, assistant_turn(answer))
                /\ UNCHANGED <<cacheVars, files>>
       ]_vars

\* C13 witness: the second prompt of a chat was answered after a plan of two
\* steps was shown
C13_Witness ==
    /\ pc = "store"
    /\ plan_steps = << <<"a">>, <<"b">> >>
    /\ last_served.valid
    /\ Len(MemoryOf(agent)) > mem_mark + Len(chat_history)

\* the lines of the stripped response that are not blank, in order
RECURSIVE NonBlankLines(_)
NonBlankLines(lines) ==
    IF lines = <<>> THEN <<>>
    ELSE (IF \E i \in 1..Len(Head(lines)) : ~IsSpace(Head(lines)[i])
          THEN <<Head(lines)>> ELSE <<>>) \o NonBlankLines(Tail(lines))

\* C15: the steps generate_plan returns are the non-blank lines of the
\* response, in order, each with its leading dashes and spaces removed and
\* nothing else changed; no step is the empty string.
C15_StepsAreLinesWithoutMarkup ==
    (plan_pc = "done" /\ ~plan_result.raised) =>
        LET lines == NonBlankLines(Split(Strip(plan_resp.content, WHITESPACE), "\n"))
            steps == plan_result.steps
        IN  /\ Len(steps) = Len(lines)
            /\ \A i \in 1..Len(steps) :
                  /\ steps[i] = LStrip(lines[i], DASH_SPACE)
                  /\ steps[i] # <<>>

\* C16: also when two callers are inside _get_agent at once, the calls with
\* the same key return the same instance and no key ever has two instances
\* built for it.
C16_OneInstanceUnderInterleaving ==
    /\ \A i, j \in 1..Len(calls) :
          SeqToSet(calls[i].keys) = SeqToSet(calls[j].keys)
              => calls[i].agent = calls[j].agent
    /\ \A a, b \in 1..Len(agents) :
          SeqToSet(Keys(agents[a].docs)) = SeqToSet(Keys(agents[b].docs)) => a = b

\* C17: while run_agent serves a chat session, every message in the memory
\* of the agent it uses is a turn of that session's chat_history (or the
\* answer being returned), never a turn of another chat session.
C17_MemoryHoldsOwnTurnsOnly ==
    pc \in {"reasoning", "store"} =>
        \A i \in 1..Len(MemoryOf(agent)) :
            \/ \E j \in 1..Len(chat_history) :
                  MemoryOf(agent)[i] = Message(chat_history[j])
            \/ pc = "store" /\ MemoryOf(agent)[i] = [type |-> "ai", content |-> answer]

\* C18: between script runs chat_history alternates user and assistant
\* turns: the odd positions hold user turns, the even positions assistant
\* turns, and the last turn is an assistant turn.
C18_HistoryAlternates ==
    pc = "idle" =>
        /\ \A i \in 1..Len(chat_history) :
              chat_history[i].role = (IF i % 2 = 1 THEN "user" ELSE "assistant")
        /\ Len(chat_history) % 2 = 0

\* C19: load_session(name) returns what the last save_session(name, ...)
\* was given: the same chat history and a mapping with the same names, a
\* text document with its content and a DataFrame as "<dataframe>"; for a
\* name never saved it returns an empty history and an empty mapping; an
\* earlier save under the name leaves no trace.
C19_SaveLoadRoundTrip ==
    per_loaded.valid =>
        LET last == per_last[per_loaded.name]
            got == per_loaded.files
        IN  IF ~last.saved
            THEN per_loaded.chat_history = <<>> /\ got = <<>>
            ELSE /\ per_loaded.chat_history = last.chat_history
                 /\ Len(got) = Len(last.files)
                 /\ SeqToSet(Keys(got)) = SeqToSet(Keys(last.files))
                 /\ \A i \in 1..Len(last.files) : \E j \in 1..Len(got) :
                       /\ got[j].name = last.files[i].name
                       /\ got[j].content.type = "str"
                       /\ got[j].content.data =
                             (IF last.files[i].content.type = "str"
                              THEN last.files[i].content.data
                              ELSE DATAFRAME_PLACEHOLDER)

\* C19 witness: a session saved a second time, with a text file and a
\* DataFrame and a chat of two turns, has been loaded
C19_Witness ==
    /\ per_loaded.valid
    /\ per_last[per_loaded.name].replaced
    /\ Len(per_loaded.chat_history) = 2
    /\ Len(per_last[per_loaded.name].files) = 2
    /\ per_last[per_loaded.name].files[1].content.type = "df"
    /\ ~per_last[TIMESTAMP_NAME].saved

=============================================================================
